---------------------------- MODULE Spec2Model ----------------------------
(***************************************************************************)
(* Content aggregator (src/app.py): the ingestion run                      *)
(* run_content_scraping, the scrapers of ContentScraper, the routes that   *)
(* change keywords and sources, and the two ways a run is started (the     *)
(* APScheduler interval job and the /scrape/manual route).                 *)
(*                                                                         *)
(* Strings are sequences of one-character strings; the empty string is     *)
(* << >>.  A relevance score is kept in tenths: the float min(c/10.0, 1.0) *)
(* is the integer min(c, 10).                                              *)
(***************************************************************************)
EXTENDS Integers, Sequences, FiniteSets, TLC

(***************************************************************************)
(* Bounds of the model.                                                    *)
(***************************************************************************)
MaxRuns == 2        \* run threads that can be alive at once
MaxOps == 3         \* runs started, requests and changes of the environment
                    \* in one behaviour
MaxTextLen == 3     \* length of the free texts tried on the matcher
MaxRep == 11        \* repetitions in the long texts tried on the matcher
MaxHandlers == 2    \* request threads that can be in add_source at once
MaxOver == 3        \* characters by which the long bodies tried pass the cap
MaxEntries == 12    \* entries of the long feeds tried

(***************************************************************************)
(* Program constants.                                                      *)
(***************************************************************************)
ScoreDivisor == 10      \* count / 10.0
ContentCap == 5000      \* content[:5000]
FeedLimit == 10         \* feed.entries[:10]

\* Python's None, where a record may stand as well
None == [none |-> TRUE]

\* no run holds the lock
NoRun == 0

(***************************************************************************)
(* Python string operations.                                               *)
(***************************************************************************)
Min(a, b) == IF a <= b THEN a ELSE b

\* str.lower() on one character of the alphabet used here
LowerChar(c) ==
    CASE c = "A" -> "a"
      [] c = "B" -> "b"
      [] OTHER -> c

\* str.lower()
Lower(s) == [i \in 1..Len(s) |-> LowerChar(s[i])]

\* mutant: the slice keeps everything
untruncated(s, n) == s

\* s[:n]
Take(s, n) == SubSeq(s, 1, Min(n, Len(s)))

\* whether t occurs in s at position i
StartsAt(s, t, i) ==
    /\ i + Len(t) - 1 <= Len(s)
    /\ \A j \in 1..Len(t) : s[i + j - 1] = t[j]

\* t in s
Contains(s, t) == \E i \in 1..(Len(s) - Len(t) + 1) : StartsAt(s, t, i)

\* s.count(t): the non-overlapping occurrences of t, scanning from the left:
\* the search goes to the first occurrence at or after i, counts it, and
\* goes on behind it
RECURSIVE CountFrom(_, _, _)
CountFrom(s, t, i) ==
    LET found == {j \in i..(Len(s) - Len(t) + 1) : StartsAt(s, t, j)}
    IN  IF found = {} THEN 0
        ELSE LET first == CHOOSE j \in found : \A k \in found : j <= k
             IN  1 + CountFrom(s, t, first + Len(t))

Count(s, t) == IF Len(t) = 0 THEN Len(s) + 1 ELSE CountFrom(s, t, 1)

IsSpace(c) == c = " "

\* str.strip()
RECURSIVE LStrip(_)
LStrip(s) == IF s # << >> /\ IsSpace(Head(s)) THEN LStrip(Tail(s)) ELSE s

RECURSIVE RStrip(_)
RStrip(s) ==
    IF s # << >> /\ IsSpace(s[Len(s)]) THEN RStrip(SubSeq(s, 1, Len(s) - 1)) ELSE s

Strip(s) == RStrip(LStrip(s))

\* "".join(parts)
RECURSIVE Join(_)
Join(parts) == IF parts = << >> THEN << >> ELSE Head(parts) \o Join(Tail(parts))

(***************************************************************************)
(* ContentScraper.check_keyword_matches: one entry per keyword whose       *)
(* lower-cased term is a substring of the lower-cased content, in the      *)
(* order of the keyword list, scored min(count / 10.0, 1.0).               *)
(* A keyword is a record [id, term].                                       *)
(***************************************************************************)
\* mutant: the score is not capped at 1.0
score_uncapped(count) == count

\* min(count / 10.0, 1.0), in tenths
score_of(count) == Min(count, ScoreDivisor)

\* mutant: a keyword is entered whether or not its term occurs
keyword_always_matches(keyword, content_lower) == TRUE

\* if keyword.term.lower() in content_lower
keyword_matches_text(keyword, content_lower) == Contains(content_lower, Lower(keyword.term))

RECURSIVE matches_from(_, _)
matches_from(content_lower, keywords) ==
    IF keywords = << >> THEN << >>
    ELSE LET keyword == Head(keywords)
             rest == matches_from(content_lower, Tail(keywords))
         IN  IF keyword_matches_text(keyword, content_lower)
             THEN <<[keyword |-> keyword.id,
                     score |-> score_of(Count(content_lower, Lower(keyword.term)))]>> \o rest
             ELSE rest

check_keyword_matches(content, keywords) == matches_from(Lower(content), keywords)

(***************************************************************************)
(* A fetched page, as BeautifulSoup sees it: the text nodes of the         *)
(* document in document order, each with the region it lies in:            *)
(*   "title"  inside the <title> element                                   *)
(*   "script" inside a <script> or <style> element                         *)
(*   "main"   inside the first element that one of article_selectors       *)
(*            matches (soup.select_one)                                    *)
(*   "other"  anywhere else (inside <body> when the page has one)          *)
(* status "error" is a failed fetch: session.get or raise_for_status       *)
(* raises.                                                                 *)
(***************************************************************************)
texts_of(nodes, regions) ==
    LET kept == SelectSeq(nodes, LAMBDA n : n.region \in regions)
    IN  [i \in 1..Len(kept) |-> kept[i].text]

\* Tag.get_text(): the strings joined as they are
get_text(strings) == Join(strings)

\* Tag.get_text(strip=True): every string stripped, the empty ones dropped
get_text_strip(strings) ==
    LET stripped == [i \in 1..Len(strings) |-> Strip(strings[i])]
    IN  Join(SelectSeq(stripped, LAMBDA t : t # << >>))

\* ContentScraper.extract_article_content, after the script/style elements
\* have been decomposed
extract_article_content(page) ==
    IF \E i \in 1..Len(page.nodes) : page.nodes[i].region = "main"
    THEN get_text_strip(texts_of(page.nodes, {"main"}))
    ELSE IF page.hasBody
         THEN get_text_strip(texts_of(page.nodes, {"other"}))
         ELSE get_text_strip(texts_of(page.nodes, {"title", "other"}))

\* soup.get_text() after the script/style elements have been decomposed
text_content_of(page) == get_text(texts_of(page.nodes, {"title", "main", "other"}))

\* soup.find('title').get_text() if soup.find('title') else url
title_of(page, url) ==
    LET titles == texts_of(page.nodes, {"title"})
    IN  IF titles # << >> THEN Head(titles) ELSE url

\* mutant: the script and style elements are not removed
text_with_scripts(page) == get_text(texts_of(page.nodes, {"title", "script", "main", "other"}))

\* the text the keywords of a website are matched against
website_match_text(page) == text_content_of(page)

\* mutant: the article's url is the source's url followed by the page's title
scrape_website_titled_url(url, keywords, page) ==
    IF page.status # "ok" THEN None
    ELSE LET keyword_matches == check_keyword_matches(website_match_text(page), keywords)
         IN  IF keyword_matches # << >>
             THEN [title |-> Strip(title_of(page, url)),
                   content |-> Take(extract_article_content(page), ContentCap),
                   url |-> url \o Strip(title_of(page, url)),
                   keywords |-> keyword_matches]
             ELSE None

\* ContentScraper.scrape_website: None on a failed fetch and (by falling off
\* the end) when no keyword matches
scrape_website(url, keywords, page) ==
    IF page.status # "ok" THEN None
    ELSE LET keyword_matches == check_keyword_matches(website_match_text(page), keywords)
         IN  IF keyword_matches # << >>
             THEN [title |-> Strip(title_of(page, url)),
                   content |-> Take(extract_article_content(page), ContentCap),
                   url |-> url,
                   keywords |-> keyword_matches]
             ELSE None

(***************************************************************************)
(* A parsed feed: status and entries, an entry being                       *)
(* [title, description, summary, link]; a key the entry lacks is the empty *)
(* string, which is what entry.get(key, '') gives for it.                  *)
(***************************************************************************)
Space == <<" ">>

entry_content(entry) == entry.description \o Space \o entry.summary

entry_match_text(entry) == entry.title \o Space \o entry_content(entry)

\* mutant: every entry is returned, matched or not
entry_always_selected(keyword_matches) == TRUE

\* the `if keyword_matches:` gate of scrape_rss
entry_selected(keyword_matches) == keyword_matches # << >>

RECURSIVE rss_articles(_, _)
rss_articles(entries, keywords) ==
    IF entries = << >> THEN << >>
    ELSE LET entry == Head(entries)
             keyword_matches == check_keyword_matches(entry_match_text(entry), keywords)
             rest == rss_articles(Tail(entries), keywords)
         IN  IF entry_selected(keyword_matches)
             THEN <<[title |-> entry.title,
                     content |-> Take(entry_content(entry), ContentCap),
                     url |-> entry.link,
                     keywords |-> keyword_matches]>> \o rest
             ELSE rest

\* mutant: every entry of the feed is looked at
scrape_rss_unbounded(rss_url, keywords, feed) ==
    IF feed.status # "ok" THEN << >>
    ELSE rss_articles(feed.entries, keywords)

\* ContentScraper.scrape_rss: [] when parsing raises
scrape_rss(rss_url, keywords, feed) ==
    IF feed.status # "ok" THEN << >>
    ELSE rss_articles(Take(feed.entries, FeedLimit), keywords)

(***************************************************************************)
(* The inputs tried: URLs, keyword terms, pages and feeds.                 *)
(***************************************************************************)
FeedUrl == <<"f">>
SiteUrl == <<"w">>
LinkX == <<"x">>
LinkY == <<"y">>
NoLink == << >>

Node(region, text) == [region |-> region, text |-> text]
Page(status, hasBody, nodes) == [status |-> status, hasBody |-> hasBody, nodes |-> nodes]
Entry(title, description, summary, link) ==
    [title |-> title, description |-> description, summary |-> summary, link |-> link]
Feed(status, entries) == [status |-> status, entries |-> entries]

\* the fetch fails
PageDown == Page("error", FALSE, << >>)
\* "a" three times in the <article>, once more in a script
PageArticle ==
    Page("ok", TRUE, <<Node("title", <<"t">>), Node("script", <<"a">>),
                       Node("main", <<"a", " ", "A", " ", "a">>)>>)
\* "a" in the navigation only, an <article> without it, no <title>
PageNav == Page("ok", TRUE, <<Node("other", <<"a", " ">>), Node("main", <<"c">>)>>)
\* no keyword anywhere, no <body>
PagePlain == Page("ok", FALSE, <<Node("title", <<" ", "t">>), Node("other", <<"c">>)>>)

Pages == {PageDown, PageArticle, PageNav, PagePlain}

FeedDown == Feed("error", << >>)
\* the same link twice in one batch, and an entry that matches nothing
FeedRepeat ==
    Feed("ok", <<Entry(<<"A">>, <<"a">>, <<"a">>, LinkX),
                 Entry(<<"c">>, << >>, << >>, LinkY),
                 Entry(<<"a">>, << >>, << >>, LinkX)>>)
\* an entry whose link is the website source's URL, and an entry without link
FeedShared ==
    Feed("ok", <<Entry(<<"a", "b">>, << >>, << >>, SiteUrl),
                 Entry(<<"b">>, << >>, <<"b">>, NoLink)>>)

Feeds == {FeedDown, FeedRepeat, FeedShared}

\* a URL that is no source yet
NewUrl == <<"v">>

Urls == {FeedUrl, SiteUrl, NewUrl}
ResponsesOf(url) ==
    IF url = FeedUrl THEN Feeds
    ELSE IF url = SiteUrl THEN Pages
    ELSE {PageArticle}

Web(feed, page) ==
    [u \in Urls |-> IF u = FeedUrl THEN feed ELSE IF u = SiteUrl THEN page ELSE PageArticle]

\* what the URLs answer at the start
InitWebs ==
    {Web(FeedRepeat, PageArticle), Web(FeedShared, PageNav), Web(FeedDown, PageDown)}

(***************************************************************************)
(* State.                                                                  *)
(***************************************************************************)
VARIABLES
    keyword_table,          \* Keyword rows: [id, term, active]
    source_table,           \* Source rows: [id, name, url, source_type, active, last_scraped]
    article_table,          \* committed Article rows: [id, title, content, url, source_id]
    article_keyword_table,  \* committed ArticleKeyword rows
    db_lock,                \* the run holding SQLite's write lock, or NoRun
    storage_ok,             \* whether a write to the database file succeeds
    web,                    \* what each URL answers
    started,                \* runs started so far
    events,                 \* requests and changes of the environment so far
    run,                    \* the run threads
    computed,               \* history: the matches computed for each committed article
    clean,                  \* history: whether a run has completed alone since the last change
    m_text, m_keywords, m_result, m_done,   \* the matcher, or a scraper, on its own
    handler                 \* the request threads at work in add_source

dbvars == <<keyword_table, source_table, article_table, article_keyword_table, db_lock>>
envvars == <<storage_ok, web>>
histvars == <<computed, clean>>
matchvars == <<m_text, m_keywords, m_result, m_done>>
vars == <<dbvars, envvars, started, events, run, histvars, matchvars, handler>>

\* a run is known by its number in the order of the starts
Runs == 1..MaxOps

\* history: how the processing of the previous source of the run ended
NoOutcome ==
    [source_id |-> 0, fetched |-> TRUE, created |-> 0, committed |-> TRUE]

IdleRun ==
    [pc |-> "idle", kind |-> "none", sources |-> << >>, keywords |-> << >>, i |-> 0,
     articles_data |-> << >>, new_articles |-> << >>, new_rows |-> << >>,
     new_matches |-> << >>,
     response |-> None, skipped |-> 0, last |-> NoOutcome,
     solo |-> FALSE, spawned_during |-> 0]

Active(r) == run[r].pc # "idle"

\* the threads of the server that serve requests (app.run serves every
\* request on a thread of its own)
Handlers == 1..MaxHandlers

IdleHandler == [pc |-> "idle", name |-> << >>, url |-> << >>, source_type |-> "none"]

\* a database that earlier sessions have filled: two keywords, a feed and a website
InitKeywords ==
    <<[id |-> 1, term |-> <<"a">>, active |-> TRUE],
      [id |-> 2, term |-> <<"b">>, active |-> TRUE]>>

InitSources ==
    <<[id |-> 1, name |-> <<"F">>, url |-> FeedUrl, source_type |-> "rss",
       active |-> TRUE, last_scraped |-> 0],
      [id |-> 2, name |-> <<"W">>, url |-> SiteUrl, source_type |-> "website",
       active |-> TRUE, last_scraped |-> 0]>>

NoMatcher ==
    /\ m_text = << >>
    /\ m_keywords = << >>
    /\ m_result = << >>
    /\ m_done = FALSE

Init ==
    /\ keyword_table = InitKeywords
    /\ source_table = InitSources
    /\ article_table = << >>
    /\ article_keyword_table = << >>
    /\ db_lock = NoRun
    /\ storage_ok = TRUE
    /\ web \in InitWebs
    /\ started = 0
    /\ events = 0
    /\ run = [r \in Runs |-> IdleRun]
    /\ computed = << >>
    /\ clean = FALSE
    /\ NoMatcher
    /\ handler = [h \in Handlers |-> IdleHandler]

(***************************************************************************)
(* Starting a run.  threading.Thread(target=run_content_scraping).start()  *)
(* and the scheduler's job both start the function on a thread of its own. *)
(***************************************************************************)
NewRun == started + 1

\* history: a change or a second run ends every run's being alone
Disturbed(rs) == [r \in Runs |-> [rs[r] EXCEPT !.solo = FALSE]]

active_ids(table) ==
    LET rows == SelectSeq(table, LAMBDA row : row.active)
    IN  [k \in 1..Len(rows) |-> rows[k].id]

\* Source.query.filter_by(active=True).all()
active_sources == active_ids(source_table)

\* Keyword.query.filter_by(active=True).all()
active_keywords ==
    LET rows == SelectSeq(keyword_table, LAMBDA row : row.active)
    IN  [k \in 1..Len(rows) |-> [id |-> rows[k].id, term |-> rows[k].term]]

\* the top of run_content_scraping on the new thread: the two queries, and
\* the return when no source is active
Begin(kind, alone) ==
    IF active_sources = << >>
    THEN IdleRun
    ELSE [IdleRun EXCEPT !.pc = "scrape", !.kind = kind, !.solo = alone,
                         !.sources = active_sources, !.keywords = active_keywords,
                         !.i = 1]

\* the start of a thread on run_content_scraping.  (The thread touches nothing
\* shared before its two queries, so they are one step with its start.)
Spawn(r, kind) ==
    /\ started + events < MaxOps
    /\ started' = started + 1
    /\ LET alone == \A q \in Runs : ~Active(q)
       IN  /\ run' = [q \in Runs |->
                        IF q = r
                        THEN Begin(kind, alone)
                        ELSE IF Active(q)
                             THEN [run[q] EXCEPT
                                      !.solo = FALSE,
                                      !.spawned_during =
                                          Min(@ + 1, 2)]
                             ELSE run[q]]
           /\ clean' = (alone /\ (clean \/ active_sources = << >>))
    /\ UNCHANGED <<dbvars, envvars, events, computed, matchvars, handler>>

\* mutant: the request waits until no run is in progress
manual_scrape_joined ==
    /\ \A q \in Runs : ~Active(q)
    /\ Spawn(NewRun, "manual")

\* GET /scrape/manual: no check of the runs that are alive
manual_scrape ==
    /\ Cardinality({r \in Runs : Active(r)}) < MaxRuns
    /\ Spawn(NewRun, "manual")

\* the interval job: APScheduler keeps one instance of a job (max_instances
\* defaults to 1) and skips the firing when that instance is still running
timer_job ==
    /\ Cardinality({r \in Runs : Active(r)}) < MaxRuns
    /\ \A q \in Runs : Active(q) => run[q].kind # "timer"
    /\ Spawn(NewRun, "timer")

(***************************************************************************)
(* run_content_scraping: the loop over the sources.                        *)
(***************************************************************************)
CurrentSource(r) == source_table[run[r].sources[run[r].i]]

\* mutant: a query sees the committed rows only
committed_articles_only(r) == article_table

\* the rows a query of this run's session sees: the committed ones and its own
visible_articles(r) == article_table \o run[r].new_articles

\* mutant: the comparison of urls never finds a row
url_never_found(rows, url) == FALSE

\* whether a row of rows has the url
url_exists(rows, url) == \E k \in 1..Len(rows) : rows[k].url = url

\* Article.query.filter_by(url=article_data['url']).first()
existing_article(rows, article_data) == url_exists(rows, article_data.url)

\* the loop over articles_data up to the next entry to insert: the entries
\* whose url the session already sees are passed over
RECURSIVE skip_existing(_, _)
skip_existing(rows, articles_data) ==
    IF articles_data = << >> THEN << >>
    ELSE IF existing_article(rows, Head(articles_data))
         THEN skip_existing(rows, Tail(articles_data))
         ELSE articles_data

\* mutant: the active keywords are queried again at every source
requeried_keywords(r) == active_keywords

\* the local `keywords` of run_content_scraping: the list its query returned
\* at the start, handed to the scraper at every source
run_keywords(r) == run[r].keywords

\* what the scraper returns for a source, a response and a list of keywords
scraped(source, keywords, response) ==
    IF source.source_type = "rss"
    THEN scrape_rss(source.url, keywords, response)
    ELSE LET article_data == scrape_website(source.url, keywords, response)
         IN  IF article_data = None THEN << >> ELSE <<article_data>>

\* scraper.scrape_rss / scraper.scrape_website on the current source, and the
\* existence checks up to the first entry to insert.  (The scrape touches no
\* row and the session holds nothing new yet, so the fetch and these queries
\* are one step.)
Scrape(r) ==
    /\ run[r].pc = "scrape"
    /\ LET source == CurrentSource(r)
           response == web[source.url]
           data == scraped(source, run_keywords(r), response)
           todo == skip_existing(visible_articles(r), data)
       IN  run' = [run EXCEPT ![r].articles_data = todo,
                              ![r].response = response,
                              ![r].skipped = Len(data) - Len(todo),
                              ![r].pc = IF todo = << >> THEN "stamp" ELSE "insert"]
    /\ UNCHANGED <<dbvars, envvars, started, events, histvars, matchvars, handler>>

\* history: how the processing of the current source ends
Outcome(r, committed) ==
    [source_id |-> CurrentSource(r).id, fetched |-> (run[r].response.status = "ok"),
     created |-> Len(run[r].new_articles), committed |-> committed]

\* whether the current source is the last of the run's list
LastSource(r) == run[r].i = Len(run[r].sources)

\* time.sleep(2), then the loop's next source or the return from
\* run_content_scraping: the record of the run after them.  (The sleep
\* touches nothing that is shared, so it is one step with the commit or the
\* handler before it.)
NextSource(r, outcome) ==
    IF LastSource(r)
    THEN [IdleRun EXCEPT !.last = outcome]
    ELSE [run[r] EXCEPT !.pc = "scrape", !.i = @ + 1, !.articles_data = << >>,
                        !.new_articles = << >>, !.new_rows = << >>,
                        !.new_matches = << >>, !.response = None, !.skipped = 0,
                        !.last = outcome]

\* history: the run has completed, alone or not
Completed(r) == IF LastSource(r) THEN run[r].solo ELSE clean

\* mutant: the source keeps the time it had
not_restamped(r) == source_table[run[r].sources[run[r].i]].last_scraped

\* datetime.utcnow() as the run reads it for a source: the time of the run's
\* attempt at the source, kept as the number of the run
utcnow(r) == r

\* mutant: the failure leaves the flushed articles in the table, without
\* their keyword rows
ExceptKeepsArticles(r) ==
    /\ run' = [run EXCEPT ![r] = NextSource(r, Outcome(r, FALSE))]
    /\ clean' = Completed(r)
    /\ db_lock' = IF db_lock = r THEN NoRun ELSE db_lock
    /\ article_table' = article_table \o run[r].new_articles
    /\ computed' = computed \o run[r].new_matches
    /\ UNCHANGED <<keyword_table, source_table, article_keyword_table>>

\* except Exception, entered from a statement that failed in a flush (the
\* flush of line 212 or 238, the autoflush of a query, the flush that
\* db.session.commit() begins with).  The failed flush has rolled the
\* transaction back in the database, expired every instance of the session
\* and left the session refusing statements until Session.rollback().  The
\* handler's print reads source.name before it calls rollback: the read of the
\* expired attribute is a statement, it raises, nothing catches it and the
\* thread leaves run_content_scraping.
ExceptAfterFlush(r) ==
    /\ run' = [run EXCEPT ![r] = [IdleRun EXCEPT !.last = Outcome(r, FALSE)]]
    /\ clean' = FALSE
    /\ db_lock' = IF db_lock = r THEN NoRun ELSE db_lock
    /\ UNCHANGED <<keyword_table, source_table, article_table, article_keyword_table,
                   computed>>

\* except Exception, entered from the COMMIT of db.session.commit() (the
\* flush has succeeded, the instances are loaded): the print,
\* db.session.rollback(), then on to the sleep
Except(r) ==
    /\ run' = [run EXCEPT ![r] = NextSource(r, Outcome(r, FALSE))]
    /\ clean' = Completed(r)
    /\ db_lock' = IF db_lock = r THEN NoRun ELSE db_lock
    /\ UNCHANGED <<keyword_table, source_table, article_table, article_keyword_table,
                   computed>>

\* SQLite has one writer: a write waits while another connection holds the
\* lock, and fails ("database is locked") when the wait times out
lock_free_for(r) == db_lock \in {NoRun, r}

\* mutant: the column is not unique
no_unique_constraint(r, url) == FALSE

\* url = db.Column(db.String(1000), unique=True, nullable=False)
unique_violation(r, url) == url_exists(visible_articles(r), url)

keyword_rows(article_id, keyword_matches) ==
    [k \in 1..Len(keyword_matches) |->
        [article_id |-> article_id,
         keyword_id |-> keyword_matches[k].keyword,
         relevance_score |-> keyword_matches[k].score]]

\* db.session.add(article); db.session.flush(); one ArticleKeyword per match;
\* then the existence checks up to the next entry to insert.  (The run holds
\* the write lock from the flush on, so no other commit can fall between the
\* flush and these queries.)
InsertArticle(r) ==
    /\ run[r].pc = "insert"
    /\ LET article_data == Head(run[r].articles_data)
           id == Len(visible_articles(r)) + 1
           article == [id |-> id, title |-> article_data.title,
                       content |-> article_data.content, url |-> article_data.url,
                       source_id |-> CurrentSource(r).id]
           todo == skip_existing(Append(visible_articles(r), article),
                                 Tail(run[r].articles_data))
       IN  \/ /\ ~lock_free_for(r)
              /\ ExceptAfterFlush(r)
           \/ /\ lock_free_for(r)
              /\ IF ~storage_ok \/ unique_violation(r, article_data.url)
                 THEN ExceptAfterFlush(r)
                 ELSE /\ db_lock' = r
                      /\ run' = [run EXCEPT
                            ![r].new_articles = Append(@, article),
                            ![r].new_rows = @ \o keyword_rows(id, article_data.keywords),
                            ![r].new_matches = Append(@, article_data.keywords),
                            ![r].articles_data = todo,
                            ![r].skipped = @ + Len(run[r].articles_data) - 1 - Len(todo),
                            ![r].pc = IF todo = << >> THEN "stamp" ELSE "insert"]
                      /\ UNCHANGED <<keyword_table, source_table, article_table,
                                     article_keyword_table, computed, clean>>
    /\ UNCHANGED <<envvars, started, events, matchvars, handler>>

\* mutant: the articles a source had are replaced by the ones it has now
source_articles_replaced(table, new_articles) ==
    SelectSeq(table, LAMBDA row :
                  \A n \in 1..Len(new_articles) : row.source_id # new_articles[n].source_id)
        \o new_articles

\* the Article table after the COMMIT of a unit of work: the unit holds
\* INSERTs only, its rows follow the rows that were there
stored_articles(table, new_articles) == table \o new_articles

\* source.last_scraped = datetime.utcnow(); db.session.commit(), and the
\* sleep after the try.  The commit
\* flushes the UPDATE of the source and the pending rows, then sends COMMIT:
\* a write that waits for the lock fails in the flush, a failing storage
\* fails in the flush or at the COMMIT.
Commit(r) ==
    /\ run[r].pc = "stamp"
    /\ \/ /\ ~lock_free_for(r)
          /\ ExceptAfterFlush(r)
       \/ /\ lock_free_for(r)
          /\ IF ~storage_ok
             THEN Except(r) \/ ExceptAfterFlush(r)
             ELSE /\ article_table' = stored_articles(article_table, run[r].new_articles)
                  /\ article_keyword_table' = article_keyword_table \o run[r].new_rows
                  /\ computed' = computed \o run[r].new_matches
                  /\ source_table' =
                        [source_table EXCEPT ![CurrentSource(r).id].last_scraped = utcnow(r)]
                  /\ db_lock' = NoRun
                  /\ run' = [run EXCEPT ![r] = NextSource(r, Outcome(r, TRUE))]
                  /\ clean' = Completed(r)
                  /\ UNCHANGED keyword_table
    /\ UNCHANGED <<envvars, started, events, matchvars, handler>>

(***************************************************************************)
(* The routes that change keywords and sources.  A request that cannot     *)
(* write (the database is locked by a run, or the write fails) ends in an  *)
(* error and changes nothing.                                              *)
(***************************************************************************)
db_writable == db_lock = NoRun /\ storage_ok

KeywordInputs == {<<" ", "B">>, <<"c">>, <<" ">>}
SourceInputs ==
    {[name |-> <<"n">>, url |-> <<"w", " ">>, source_type |-> "website"],
     [name |-> <<"n">>, url |-> NewUrl, source_type |-> "website"],
     [name |-> << >>, url |-> NewUrl, source_type |-> "website"]}

\* history: a request or a change of the environment
Event ==
    /\ started + events < MaxOps
    /\ events' = events + 1
    /\ run' = Disturbed(run)
    /\ clean' = FALSE
    /\ UNCHANGED <<computed, started, matchvars>>

\* POST /keywords/add
add_keyword(form_term) ==
    /\ Event
    /\ LET term == Strip(form_term)
           existing_keyword ==
               \E k \in 1..Len(keyword_table) : keyword_table[k].term = Lower(term)
       IN  keyword_table' =
               IF term # << >> /\ ~existing_keyword /\ db_writable
               THEN Append(keyword_table,
                           [id |-> Len(keyword_table) + 1, term |-> Lower(term),
                            active |-> TRUE])
               ELSE keyword_table
    /\ UNCHANGED <<source_table, article_table, article_keyword_table, db_lock, envvars,
                   handler>>

\* GET /keywords/toggle/<keyword_id>
toggle_keyword(keyword_id) ==
    /\ Event
    /\ keyword_id \in 1..Len(keyword_table)
    /\ keyword_table' =
           IF db_writable
           THEN [keyword_table EXCEPT ![keyword_id].active = ~@]
           ELSE keyword_table
    /\ UNCHANGED <<source_table, article_table, article_keyword_table, db_lock, envvars,
                   handler>>

\* POST /sources/add
add_source(form) ==
    /\ Event
    /\ LET name == Strip(form.name)
           url == Strip(form.url)
           existing_source == url_exists(source_table, url)
       IN  source_table' =
               IF name # << >> /\ url # << >> /\ ~existing_source /\ db_writable
               THEN Append(source_table,
                           [id |-> Len(source_table) + 1, name |-> name, url |-> url,
                            source_type |-> form.source_type, active |-> TRUE,
                            last_scraped |-> 0])
               ELSE source_table
    /\ UNCHANGED <<keyword_table, article_table, article_keyword_table, db_lock, envvars,
                   handler>>

\* GET /sources/toggle/<source_id>
toggle_source(source_id) ==
    /\ Event
    /\ source_id \in 1..Len(source_table)
    /\ source_table' =
           IF db_writable
           THEN [source_table EXCEPT ![source_id].active = ~@]
           ELSE source_table
    /\ UNCHANGED <<keyword_table, article_table, article_keyword_table, db_lock, envvars,
                   handler>>

(***************************************************************************)
(* The environment: what a URL answers changes, writes start or stop       *)
(* failing.                                                                *)
(***************************************************************************)
web_change(url, response) ==
    /\ Event
    /\ response \in ResponsesOf(url)
    /\ response # web[url]
    /\ web' = [web EXCEPT ![url] = response]
    /\ UNCHANGED <<dbvars, storage_ok, handler>>

storage_change ==
    /\ Event
    /\ storage_ok' = ~storage_ok
    /\ UNCHANGED <<dbvars, web, handler>>

Next ==
    \/ manual_scrape
    \/ timer_job
    \/ \E r \in Runs : Scrape(r)
    \/ \E r \in Runs : InsertArticle(r)
    \/ \E r \in Runs : Commit(r)
    \/ \E t \in KeywordInputs : add_keyword(t)
    \/ \E k \in 1..Len(keyword_table) : toggle_keyword(k)
    \/ \E f \in SourceInputs : add_source(f)
    \/ \E k \in 1..Len(source_table) : toggle_source(k)
    \/ \E u \in Urls : \E response \in ResponsesOf(u) : web_change(u, response)
    \/ storage_change

Spec == Init /\ [][Next]_vars

(***************************************************************************)
(* add_source step by step, for requests served at the same time.  Each    *)
(* request thread has a session of its own; the SELECT of the check takes  *)
(* no lock that outlasts it, so another request can commit between a       *)
(* request's check and its INSERT.  (The add_source above is a request     *)
(* served with no other add_source under way.)                             *)
(***************************************************************************)
\* the form is read and Source.query.filter_by(url=url).first() is run: the
\* request goes on to the insert when name and url are given and no row has
\* the url, and returns otherwise
add_source_check(h, form) ==
    /\ Event
    /\ handler[h].pc = "idle"
    /\ LET name == Strip(form.name)
           url == Strip(form.url)
           existing_source == url_exists(source_table, url)
       IN  handler' =
               IF name # << >> /\ url # << >> /\ ~existing_source
               THEN [handler EXCEPT ![h] = [pc |-> "insert", name |-> name, url |-> url,
                                           source_type |-> form.source_type]]
               ELSE handler
    /\ UNCHANGED <<dbvars, envvars>>

\* source = Source(...); db.session.add(source); db.session.commit()
add_source_insert(h) ==
    /\ handler[h].pc = "insert"
    /\ handler' = [handler EXCEPT ![h] = IdleHandler]
    /\ source_table' =
           IF db_writable
           THEN Append(source_table,
                       [id |-> Len(source_table) + 1, name |-> handler[h].name,
                        url |-> handler[h].url, source_type |-> handler[h].source_type,
                        active |-> TRUE, last_scraped |-> 0])
           ELSE source_table
    /\ UNCHANGED <<keyword_table, article_table, article_keyword_table, db_lock, envvars,
                   started, events, run, histvars, matchvars>>

\* the forms posted: those of SourceInputs, and the same new url once more,
\* padded, under another name and type
AddSourceForms ==
    SourceInputs \cup {[name |-> <<"m">>, url |-> <<" ", "v">>, source_type |-> "rss"]}

NextAddSource ==
    \/ \E h \in Handlers : \E f \in AddSourceForms : add_source_check(h, f)
    \/ \E h \in Handlers : add_source_insert(h)

SpecAddSource == Init /\ [][NextAddSource]_vars

(***************************************************************************)
(* Runs over a long feed: n entries with links of their own, "x", "xx",    *)
(* ..., all of them matching the keyword "a" but the dull ones.            *)
(***************************************************************************)
LongFeed(n, dull) ==
    Feed("ok", [k \in 1..n |->
                   Entry(IF k \in dull THEN <<"c">> ELSE <<"a">>, << >>, << >>,
                         [j \in 1..k |-> "x"])])

LongFeeds ==
    {LongFeed(n, dull) : n \in (FeedLimit - 1)..MaxEntries,
                         dull \in {{}, 1..(FeedLimit - 2)}}

InitFeed ==
    /\ keyword_table = InitKeywords
    /\ source_table = InitSources
    /\ article_table = << >>
    /\ article_keyword_table = << >>
    /\ db_lock = NoRun
    /\ storage_ok = TRUE
    /\ \E feed \in LongFeeds : web = Web(feed, PageDown)
    /\ started = 0
    /\ events = 0
    /\ run = [r \in Runs |-> IdleRun]
    /\ computed = << >>
    /\ clean = FALSE
    /\ NoMatcher
    /\ handler = [h \in Handlers |-> IdleHandler]

NextFeed ==
    \/ manual_scrape
    \/ timer_job
    \/ \E r \in Runs : Scrape(r)
    \/ \E r \in Runs : InsertArticle(r)
    \/ \E r \in Runs : Commit(r)

SpecFeed == InitFeed /\ [][NextFeed]_vars

(***************************************************************************)
(* Runs over feeds whose entries have no link.                             *)
(***************************************************************************)
\* two matching entries without link, then one with a link
FeedNoLinks ==
    Feed("ok", <<Entry(<<"a">>, << >>, << >>, NoLink),
                 Entry(<<"b">>, <<"a">>, << >>, NoLink),
                 Entry(<<"a">>, << >>, << >>, LinkX)>>)
\* an entry with a link between two without, and one that matches nothing
FeedNoLinksApart ==
    Feed("ok", <<Entry(<<"c">>, << >>, << >>, NoLink),
                 Entry(<<"b">>, << >>, << >>, NoLink),
                 Entry(<<"a">>, << >>, << >>, LinkY),
                 Entry(<<"a", "b">>, << >>, << >>, NoLink)>>)

InitNoLink ==
    /\ keyword_table = InitKeywords
    /\ source_table = InitSources
    /\ article_table = << >>
    /\ article_keyword_table = << >>
    /\ db_lock = NoRun
    /\ storage_ok = TRUE
    /\ \E feed \in {FeedNoLinks, FeedNoLinksApart, FeedShared} : web = Web(feed, PageDown)
    /\ started = 0
    /\ events = 0
    /\ run = [r \in Runs |-> IdleRun]
    /\ computed = << >>
    /\ clean = FALSE
    /\ NoMatcher
    /\ handler = [h \in Handlers |-> IdleHandler]

SpecNoLink == InitNoLink /\ [][NextFeed]_vars

(***************************************************************************)
(* The matcher on its own: check_keyword_matches applied to a text and a   *)
(* list of keywords.                                                       *)
(***************************************************************************)
Seqs(S, n) == UNION {[1..k -> S] : k \in 0..n}

\* u repeated n times
Rep(u, n) == [i \in 1..(n * Len(u)) |-> u[((i - 1) % Len(u)) + 1]]

MatchAlphabet == {"a", "A", "b", " "}
MatchTexts ==
    Seqs(MatchAlphabet, MaxTextLen)
        \cup {Rep(u, n) : u \in {<<"a">>, <<"A", "b">>, <<"a", "a", " ">>}, n \in 0..MaxRep}

MatchKeywords ==
    {[id |-> 1, term |-> <<"a">>],
     [id |-> 2, term |-> <<"a", "a">>],
     [id |-> 3, term |-> <<"a", "b">>]}
MatchKeywordLists ==
    {ks \in Seqs(MatchKeywords, 2) : \A i, j \in 1..Len(ks) : i # j => ks[i] # ks[j]}

InitMatch ==
    /\ keyword_table = InitKeywords
    /\ source_table = InitSources
    /\ article_table = << >>
    /\ article_keyword_table = << >>
    /\ db_lock = NoRun
    /\ storage_ok = TRUE
    /\ web = Web(FeedDown, PageDown)
    /\ started = 0
    /\ events = 0
    /\ run = [r \in Runs |-> IdleRun]
    /\ computed = << >>
    /\ clean = FALSE
    /\ m_text \in MatchTexts
    /\ m_keywords \in MatchKeywordLists
    /\ m_result = << >>
    /\ m_done = FALSE
    /\ handler = [h \in Handlers |-> IdleHandler]

ApplyMatch ==
    /\ ~m_done
    /\ m_done' = TRUE
    /\ m_result' = check_keyword_matches(m_text, m_keywords)
    /\ UNCHANGED <<dbvars, envvars, started, events, run, histvars, m_text, m_keywords,
                   handler>>

NextMatch == ApplyMatch

SpecMatch == InitMatch /\ [][NextMatch]_vars

(***************************************************************************)
(* The scrapers on their own, on bodies about as long as the cap:          *)
(* scrape_website on a page whose <article> holds the text, scrape_rss on  *)
(* an entry whose description holds it, and on an entry whose description  *)
(* and summary hold its two halves.                                        *)
(***************************************************************************)
CapLengths == (0..MaxOver) \cup ((ContentCap - MaxOver)..(ContentCap + MaxOver))

\* the text of length n that begins with the sequence head and goes on with
\* the character c
Padded(head, c, n) == [i \in 1..n |-> IF i <= Len(head) THEN head[i] ELSE c]

CapTexts ==
    {Padded(head, "c", n) : head \in {<<"a">>, <<"A", " ">>, <<" ", "a">>}, n \in CapLengths}

CapKeywords == <<[id |-> 1, term |-> <<"a">>]>>

CapPage(text) == Page("ok", TRUE, <<Node("title", <<"a">>), Node("main", text)>>)

CapEntry(text) == Entry(<<"a">>, text, << >>, LinkX)

CapEntrySplit(text) ==
    LET half == Len(text) \div 2
    IN  Entry(<<"a">>, SubSeq(text, 1, half), SubSeq(text, half + 1, Len(text)), LinkY)

InitCap ==
    /\ keyword_table = InitKeywords
    /\ source_table = InitSources
    /\ article_table = << >>
    /\ article_keyword_table = << >>
    /\ db_lock = NoRun
    /\ storage_ok = TRUE
    /\ web = Web(FeedDown, PageDown)
    /\ started = 0
    /\ events = 0
    /\ run = [r \in Runs |-> IdleRun]
    /\ computed = << >>
    /\ clean = FALSE
    /\ m_text \in CapTexts
    /\ m_keywords = CapKeywords
    /\ m_result = << >>
    /\ m_done = FALSE
    /\ handler = [h \in Handlers |-> IdleHandler]

Applied(result) ==
    /\ ~m_done
    /\ m_done' = TRUE
    /\ m_result' = result
    /\ UNCHANGED <<dbvars, envvars, started, events, run, histvars, m_text, m_keywords,
                   handler>>

ApplyWebsite ==
    Applied(scraped(InitSources[2], m_keywords, CapPage(m_text)))

ApplyRss ==
    Applied(scraped(InitSources[1], m_keywords, Feed("ok", <<CapEntry(m_text)>>)))

ApplyRssSplit ==
    Applied(scraped(InitSources[1], m_keywords, Feed("ok", <<CapEntrySplit(m_text)>>)))

NextCap == ApplyWebsite \/ ApplyRss \/ ApplyRssSplit

SpecCap == InitCap /\ [][NextCap]_vars

(***************************************************************************)
(* Properties.                                                             *)
(***************************************************************************)
IsPrefix(s, t) == Len(s) <= Len(t) /\ SubSeq(t, 1, Len(s)) = s

Distinct(urls) == \A i, j \in 1..Len(urls) : i # j => urls[i] # urls[j]

UrlsOf(rows) == [k \in 1..Len(rows) |-> rows[k].url]

RowsOf(article_id) ==
    SelectSeq(article_keyword_table, LAMBDA row : row.article_id = article_id)

\* C1: in every reachable state at most one execution of run_content_scraping
\* is in progress, whatever triggers (timer, manual) have been issued.
C1_MutualExclusion == Cardinality({r \in Runs : Active(r)}) <= 1

\* C2: no two committed Article rows have the same url, and no run's session
\* holds an inserted article whose url it could already see: the existence
\* check precedes every insert.
C2_ArticleUrlUnique ==
    /\ Distinct(UrlsOf(article_table))
    /\ \A r \in Runs : Distinct(UrlsOf(visible_articles(r)))

\* C2 witness: a run is about to insert a url that another run has committed
\* since the run's existence check.
C2_Witness ==
    \E r \in Runs :
        /\ run[r].pc = "insert"
        /\ url_exists(article_table, Head(run[r].articles_data).url)

\* C3: a run that follows a run completed alone, with nothing changed in
\* between or since (sources, keywords, what the URLs answer, the storage),
\* and that runs alone itself, inserts no Article and no ArticleKeyword row.
C3_IdempotentReingestion ==
    \A r \in Runs :
        (Active(r) /\ run[r].solo /\ clean) =>
            (run[r].new_articles = << >> /\ run[r].new_rows = << >>)

\* C3 witness: such a second run meets an entry that the first run stored.
C3_Witness ==
    \E r \in Runs :
        /\ Active(r) /\ run[r].solo /\ clean
        /\ run[r].pc = "stamp"
        /\ run[r].skipped >= 1

\* C4: every committed Article has exactly the ArticleKeyword rows computed
\* for it, one per matched keyword; a failure after an insert leaves nothing
\* of the source's unit of work in the committed tables.
C4_AtomicUnitOfWork ==
    /\ Len(computed) = Len(article_table)
    /\ \A k \in 1..Len(article_table) :
          /\ article_table[k].id = k
          /\ RowsOf(k) = keyword_rows(k, computed[k])
    /\ \A k \in 1..Len(article_keyword_table) :
          article_keyword_table[k].article_id \in 1..Len(article_table)

\* C4 witness: a source's unit of work was rolled back after an article had
\* been inserted, while articles of other units are committed.
C4_Witness ==
    \E r \in Runs :
        /\ ~run[r].last.committed
        /\ run[r].last.created >= 1
        /\ article_table # << >>

\* C5: no step of a run at a source before its last one ends the run, every
\* step keeps the run's list of sources and keeps its position or moves it to
\* the next source, and no step removes or changes a committed row.
C5_Step ==
    /\ \A r \in Runs :
          Active(r) =>
              /\ run'[r].pc = "idle" => LastSource(r)
              /\ run'[r].pc # "idle" =>
                    /\ run'[r].sources = run[r].sources
                    /\ run'[r].i \in {run[r].i, run[r].i + 1}
    /\ IsPrefix(article_table, article_table')
    /\ IsPrefix(article_keyword_table, article_keyword_table')

C5_ErrorIsolation == [][C5_Step]_vars

\* the step that ends a run's processing of its current source
SourceDone(r) ==
    /\ run[r].pc \in {"insert", "stamp"}
    /\ run'[r].pc = "idle" \/ run'[r].i # run[r].i

\* the last_scraped of the run's current source in a source table
LastScraped(table, r) == table[run[r].sources[run[r].i]].last_scraped

\* C6 as stated: whenever a run has processed a source, whatever the outcome,
\* the source's last_scraped is the time of that attempt.
C6_StampedOnEveryAttempt ==
    [][\A r \in Runs : SourceDone(r) => LastScraped(source_table', r) = r]_vars

\* C6 as amended: when a run has processed a source and its unit of work
\* committed (articles created, no match, or a failed fetch), last_scraped is
\* the time of that attempt; when the unit was rolled back (a persistence
\* failure), last_scraped is what it was before.
C6_StampedOnCommit ==
    [][\A r \in Runs :
          SourceDone(r) =>
              IF run'[r].last.committed
              THEN LastScraped(source_table', r) = r
              ELSE LastScraped(source_table', r) = LastScraped(source_table, r)]_vars

\* C6 witness: a website whose fetch failed has been stamped with the attempt.
C6_Witness ==
    \E r \in Runs :
        /\ ~run[r].last.fetched
        /\ run[r].last.committed
        /\ source_table[run[r].last.source_id].source_type = "website"
        /\ source_table[run[r].last.source_id].last_scraped = r

\* C7: however many triggers arrive while a run is in progress, at most one
\* further run is started on their account.
C7_TriggersCoalesced == \A r \in Runs : run[r].spawned_during <= 1

(***************************************************************************)
(* The matcher (SpecMatch).                                                *)
(***************************************************************************)
EntriesFor(result, keyword_id) == SelectSeq(result, LAMBDA m : m.keyword = keyword_id)

\* C8: for the text and every keyword of the list, check_keyword_matches
\* returns no entry for the keyword when its lower-cased term occurs 0 times
\* in the lower-cased text, and exactly one entry, scored min(c/10, 1.0),
\* when it occurs c >= 1 times; the entry is the one the keyword gets when it
\* is matched alone.
C8_KeywordScoring ==
    m_done =>
        \A k \in 1..Len(m_keywords) :
            LET K == m_keywords[k]
                c == Count(Lower(m_text), Lower(K.term))
                entries == EntriesFor(m_result, K.id)
            IN  /\ c = 0 => entries = << >>
                /\ c >= 1 =>
                      /\ Len(entries) = 1
                      /\ entries[1].score = (IF c >= 10 THEN 10 ELSE c)
                /\ entries = check_keyword_matches(m_text, <<K>>)

\* C8 witness: one keyword occurs more than ten times and scores 1.0, another
\* does not occur and has no entry.
C8_Witness ==
    /\ m_done
    /\ Len(m_keywords) = 2
    /\ Len(m_result) = 1
    /\ m_result[1].score = 10
    /\ \E k \in 1..2 : Count(Lower(m_text), Lower(m_keywords[k].term)) > 10

(***************************************************************************)
(* Websites.                                                               *)
(***************************************************************************)
\* a run at work on a website whose scrape returned an article
WebsiteWork(r) ==
    /\ run[r].pc \in {"insert", "stamp"}
    /\ CurrentSource(r).source_type = "website"
    /\ (run[r].articles_data # << >> \/ run[r].new_articles # << >>)

\* the matches the article comes with
WebsiteMatches(r) ==
    IF run[r].articles_data # << >> THEN Head(run[r].articles_data).keywords
    ELSE run[r].new_matches[1]

TermOf(keywords, keyword_id) ==
    (CHOOSE k \in {keywords[n] : n \in 1..Len(keywords)} : k.id = keyword_id).term

\* the title and the extracted body, combined
TitleAndBody(page, url) ==
    Strip(title_of(page, url)) \o Space \o extract_article_content(page)

\* gating and scoring by the text `text`
GatedAndScoredBy(r, text) ==
    /\ \E n \in 1..Len(run[r].keywords) :
          Count(Lower(text), Lower(run[r].keywords[n].term)) >= 1
    /\ \A n \in 1..Len(WebsiteMatches(r)) :
          LET m == WebsiteMatches(r)[n]
              c == Count(Lower(text), Lower(TermOf(run[r].keywords, m.keyword)))
          IN  m.score = (IF c >= 10 THEN 10 ELSE c)
    /\ \A n \in 1..Len(run[r].new_rows) :
          \E k \in 1..Len(WebsiteMatches(r)) :
              /\ run[r].new_rows[n].keyword_id = WebsiteMatches(r)[k].keyword
              /\ run[r].new_rows[n].relevance_score = WebsiteMatches(r)[k].score

\* C9 as stated: a website's article exists only if a keyword of the run
\* occurs in title + extracted body, and every score is min(c/10, 1.0) for
\* the occurrences c in title + extracted body.
C9_GatedByTitleAndBody ==
    \A r \in Runs :
        WebsiteWork(r) =>
            GatedAndScoredBy(r, TitleAndBody(run[r].response, CurrentSource(r).url))

\* C9 as amended: a website's article exists only if a keyword of the run
\* occurs in the text of the whole page (script and style removed, the title
\* included); it has one match for every keyword of the run that occurs in
\* that text, and every score is min(c/10, 1.0) for the occurrences c in that
\* text.
C9_GatedByPageText ==
    \A r \in Runs :
        WebsiteWork(r) =>
            LET text == text_content_of(run[r].response)
            IN  /\ GatedAndScoredBy(r, text)
                /\ \A n \in 1..Len(run[r].keywords) :
                      Count(Lower(text), Lower(run[r].keywords[n].term)) >= 1 =>
                          Len(EntriesFor(WebsiteMatches(r), run[r].keywords[n].id)) = 1

\* C9 witness: the page with three occurrences in its <article> has given an
\* inserted article with one match, scored 0.3.
C9_Witness ==
    \E r \in Runs :
        /\ WebsiteWork(r)
        /\ run[r].response = PageArticle
        /\ Len(run[r].new_rows) = 1
        /\ run[r].new_rows[1].relevance_score = 3

\* C10: every committed Article, of a feed or of a website, has at least one
\* ArticleKeyword row.
C10_PersistenceGate ==
    \A k \in 1..Len(article_table) : RowsOf(article_table[k].id) # << >>

\* C10 witness: a feed with an entry that matches nothing and a website have
\* been ingested: the matching entry and the page are stored, the other entry
\* is not.
C10_Witness ==
    /\ web[FeedUrl] = FeedRepeat
    /\ \E k \in 1..Len(article_table) : article_table[k].source_id = 1
    /\ \E k \in 1..Len(article_table) : article_table[k].source_id = 2
    /\ ~url_exists(article_table, LinkY)
    /\ \A r \in Runs : ~Active(r)

(***************************************************************************)
(* The ArticleKeyword rows.                                                *)
(***************************************************************************)
\* the rows of a sequence are positive, at most 1.0 (in tenths), and no two of
\* them have the same article and the same keyword
ScoredOncePerPair(rows) ==
    /\ \A k \in 1..Len(rows) :
          /\ rows[k].relevance_score > 0
          /\ rows[k].relevance_score <= ScoreDivisor
    /\ \A j, k \in 1..Len(rows) :
          (j # k /\ rows[j].article_id = rows[k].article_id) =>
              rows[j].keyword_id # rows[k].keyword_id

\* C11: every ArticleKeyword row, committed or added to a run's session, has
\* a relevance score greater than 0 and at most 1, and no two rows are of the
\* same article and the same keyword.
C11_NoZeroScore ==
    /\ ScoredOncePerPair(article_keyword_table)
    /\ \A r \in Runs : ScoredOncePerPair(article_keyword_table \o run[r].new_rows)

\* C11 witness: a committed article has two rows, one per matched keyword,
\* beside an article of another source that has one.
C11_Witness ==
    /\ \E k \in 1..Len(article_table) : Len(RowsOf(k)) = 2
    /\ \E k \in 1..Len(article_table) : Len(RowsOf(k)) = 1

(***************************************************************************)
(* The snapshot of a run.                                                  *)
(***************************************************************************)
IsSuffix(s, t) == Len(s) <= Len(t) /\ SubSeq(t, Len(t) - Len(s) + 1, Len(t)) = s

\* a run past the scrape of its current source works on what the scraper
\* returns for the keywords of the run's own list
MatchedBySnapshot(r) ==
    run[r].pc \in {"insert", "stamp"} =>
        LET data == scraped(CurrentSource(r), run[r].keywords, run[r].response)
        IN  /\ IsSuffix(run[r].articles_data, data)
            /\ \A n \in 1..Len(run[r].new_matches) :
                  \E k \in 1..Len(data) : data[k].keywords = run[r].new_matches[n]

\* a step seen from run r: its start, a step while it is in flight, and a
\* request (which is what changes the counter of events)
SnapshotStep(r) ==
    /\ (~Active(r) /\ Active(r)') =>
          /\ run'[r].sources = active_sources
          /\ run'[r].keywords = active_keywords
          /\ run'[r].i = 1
    /\ (Active(r) /\ Active(r)') =>
          /\ run'[r].sources = run[r].sources
          /\ run'[r].keywords = run[r].keywords
          /\ run'[r].i \in {run[r].i, run[r].i + 1}
    /\ events' # events =>
          /\ run'[r].pc = run[r].pc
          /\ run'[r].i = run[r].i
          /\ run'[r].articles_data = run[r].articles_data

RoomForRun ==
    /\ started + events < MaxOps
    /\ Cardinality({r \in Runs : Active(r)}) < MaxRuns

\* the step of a manual_scrape request that started run r
ManualStart(r) == ~Active(r) /\ Active(r)' /\ run'[r].kind = "manual"

\* C13: a manual_scrape request can be served in every state of the runs
\* (none started, some in progress and holding the database's write lock or
\* not, all finished, the storage failing or not); the step that serves it
\* leaves the run it started at its beginning, with nothing fetched and
\* nothing written, and leaves the other runs where they were; and every run
\* in progress is about to call the scraper, which waits for the URL's answer
\* only, or can take its next step on the database, whatever the other runs
\* and the requests do.
C13_NonBlockingTrigger ==
    /\ [](RoomForRun => ENABLED manual_scrape)
    /\ [](\A r \in Runs :
             Active(r) =>
                 \/ run[r].pc = "scrape"
                 \/ ENABLED InsertArticle(r)
                 \/ ENABLED Commit(r))
    /\ [][\A r \in Runs :
             ManualStart(r) =>
                 /\ run'[r].pc = "scrape"
                 /\ run'[r].i = 1
                 /\ run'[r].response = None
                 /\ run'[r].new_articles = << >>
                 /\ UNCHANGED <<dbvars, envvars>>
                 /\ \A q \in Runs \ {r} :
                       /\ run'[q].pc = run[q].pc
                       /\ run'[q].i = run[q].i]_vars

\* C13 witness: a manual request has been served and its run is at its
\* beginning while an earlier run, during which it was started, holds the
\* write lock in the middle of a source.
C13_Witness ==
    \E q, r \in Runs :
        /\ q < r
        /\ run[r].kind = "manual" /\ run[r].pc = "scrape" /\ run[r].i = 1
        /\ run[q].spawned_during >= 1
        /\ db_lock = q

(***************************************************************************)
(* The end of a run.                                                       *)
(***************************************************************************)
\* the step with which run r returns from run_content_scraping
RunEnds(r) == Active(r) /\ ~Active(r)'

\* C14: a run attempts the sources of its list one after the other, each
\* once, and returns only from the attempt at the last of them.
C14_RunCompletion ==
    [][\A r \in Runs :
          /\ RunEnds(r) => (LastSource(r) /\ run[r].pc \in {"insert", "stamp"})
          /\ (Active(r) /\ Active(r)' /\ run'[r].i # run[r].i) =>
                /\ run'[r].i = run[r].i + 1
                /\ run[r].pc \in {"insert", "stamp"}
                /\ run'[r].pc = "scrape"]_vars

(***************************************************************************)
(* The Source rows (SpecAddSource).                                        *)
(***************************************************************************)
\* C15: no two Source rows have the same url, whatever add-source requests
\* have been served, one after the other or at the same time.
C15_SourceUrlUnique == Distinct(UrlsOf(source_table))

(***************************************************************************)
(* Articles are written once.                                              *)
(***************************************************************************)
\* C16: no step removes or changes a committed Article or ArticleKeyword
\* row: after every step the committed rows are still there, as they were,
\* followed by the rows the step committed.
C16_WriteOnce ==
    [][/\ IsPrefix(article_table, article_table')
       /\ IsPrefix(article_keyword_table, article_keyword_table')]_vars

\* C16 witness: a run has passed over an entry whose url is stored, the
\* stored article having another content or other matches than the entry has
\* now, and is about to commit.
C16_Witness ==
    \E r \in Runs :
        /\ run[r].pc = "stamp"
        /\ run[r].skipped >= 1
        /\ LET data == scraped(CurrentSource(r), run[r].keywords, run[r].response)
           IN  \E k \in 1..Len(data) : \E n \in 1..Len(article_table) :
                   /\ data[k].url = article_table[n].url
                   /\ \/ data[k].content # article_table[n].content
                      \/ data[k].keywords # computed[n]

(***************************************************************************)
(* The content cap (SpecCap).                                              *)
(***************************************************************************)
\* the body the scraper had before the cap: for the website (the article's
\* url is the site's) the stripped text of the <article>, for the entry with
\* the whole text as description the text and a space, for the entry with the
\* two halves the halves with a space between
BodyBeforeCap(article) ==
    IF article.url = SiteUrl THEN Strip(m_text)
    ELSE IF article.url = LinkX THEN m_text \o Space
    ELSE LET half == Len(m_text) \div 2
         IN  SubSeq(m_text, 1, half) \o Space \o SubSeq(m_text, half + 1, Len(m_text))

\* C17: the content of every article a scraper returns is at most 5000
\* characters long; it is the whole body when the body has at most 5000
\* characters, and the first 5000 characters of the body when it has more.
C17_ContentCap ==
    m_done =>
        \A k \in 1..Len(m_result) :
            LET content == m_result[k].content
                body == BodyBeforeCap(m_result[k])
            IN  /\ Len(content) <= 5000
                /\ Len(body) <= 5000 => content = body
                /\ Len(body) > 5000 =>
                      /\ Len(content) = 5000
                      /\ \A i \in 1..5000 : content[i] = body[i]

\* C17 witness: an article was returned for a body of more than 5000
\* characters.
C17_Witness ==
    /\ m_done
    /\ Len(m_result) = 1
    /\ Len(BodyBeforeCap(m_result[1])) > 5000

(***************************************************************************)
(* The first ten entries of a feed (SpecFeed).                             *)
(***************************************************************************)
\* the url is the link of one of the first ten entries of the feed
AmongFirstTen(feed, url) ==
    \E k \in 1..Len(feed.entries) : k <= 10 /\ feed.entries[k].link = url

\* the rows of a sequence of articles that belong to the feed source
OfFeed(rows) == SelectSeq(rows, LAMBDA row : row.source_id = 1)

\* C18: what a run has to insert, has inserted and has committed for a feed
\* comes from the first ten entries of the feed, in feed order; no entry at
\* position 11 or later is ever stored, a run creates at most ten articles
\* for the feed, and (the feed staying as it is) no more than ten articles of
\* the feed are stored by all the runs together.
C18_FeedEntryBound ==
    /\ \A k \in 1..Len(article_table) :
          article_table[k].source_id = 1 =>
              AmongFirstTen(web[FeedUrl], article_table[k].url)
    /\ Len(OfFeed(article_table)) <= 10
    /\ \A r \in Runs :
          (Active(r) /\ CurrentSource(r).source_type = "rss"
                     /\ run[r].pc \in {"insert", "stamp"}) =>
              /\ Len(run[r].new_articles) + Len(run[r].articles_data) <= 10
              /\ \A k \in 1..Len(run[r].new_articles) :
                    AmongFirstTen(run[r].response, run[r].new_articles[k].url)
              /\ \A k \in 1..Len(run[r].articles_data) :
                    AmongFirstTen(run[r].response, run[r].articles_data[k].url)
              /\ \A j, k \in 1..Len(run[r].articles_data) :
                    j < k => Len(run[r].articles_data[j].url)
                                 < Len(run[r].articles_data[k].url)

\* C18 witness: ten articles of a feed are committed, and the feed has an
\* eleventh entry that matches a keyword.
C18_Witness ==
    /\ Len(OfFeed(article_table)) = 10
    /\ Len(web[FeedUrl].entries) >= 11
    /\ web[FeedUrl].entries[11].title = <<"a">>

(***************************************************************************)
(* The one article of a website.                                           *)
(***************************************************************************)
ArticlesOf(source_id) == SelectSeq(article_table, LAMBDA row : row.source_id = source_id)

\* C19: a website source has at most one committed article, and its url is
\* the source's url; a run that has inserted an article for a website finds
\* no committed article with the source's url, so that once one is committed
\* no run adds another, whatever the page and the keywords have become.
C19_OneArticlePerWebsite ==
    /\ \A k \in 1..Len(source_table) :
          source_table[k].source_type = "website" =>
              /\ Len(ArticlesOf(source_table[k].id)) <= 1
              /\ \A n \in 1..Len(ArticlesOf(source_table[k].id)) :
                    ArticlesOf(source_table[k].id)[n].url = source_table[k].url
    /\ \A r \in Runs :
          (Active(r) /\ CurrentSource(r).source_type = "website") =>
              /\ Len(run[r].new_articles) <= 1
              /\ run[r].new_articles # << >> =>
                    /\ run[r].new_articles[1].url = CurrentSource(r).url
                    /\ ~url_exists(article_table, CurrentSource(r).url)

\* C19 witness: a run is through with a website whose article is stored; the
\* page now matches and its body is another one than the stored one, and the
\* run has passed it over.
C19_Witness ==
    \E r \in Runs :
        /\ run[r].pc = "stamp"
        /\ CurrentSource(r).source_type = "website"
        /\ run[r].skipped = 1
        /\ run[r].new_articles = << >>
        /\ \E n \in 1..Len(article_table) :
              /\ article_table[n].source_id = CurrentSource(r).id
              /\ article_table[n].url = CurrentSource(r).url
              /\ article_table[n].content
                    # Take(extract_article_content(run[r].response), ContentCap)

(***************************************************************************)
(* Entries without a link (SpecNoLink).                                    *)
(***************************************************************************)
WithoutUrl(rows) == SelectSeq(rows, LAMBDA row : row.url = << >>)

=============================================================================
